---- MODULE Spec2Model ----
(***************************************************************************)
(* Background job managers of HollyWool (backend/app/services).            *)
(*                                                                         *)
(* One manager instance is modelled at a time; `kind` selects which of the *)
(* seven managers it is.  The store (`jobs`), the queue, the lock, the     *)
(* persisted file, the worker thread and the request threads are state;    *)
(* every lock acquisition and every file write is one step.                *)
(***************************************************************************)
EXTENDS Integers, Sequences, FiniteSets, TLC

\* ------------------------------------------------------------------ bounds
MaxJobs == 2            \* create_job calls in one behaviour (uuid4 ids 1..MaxJobs)
MaxCrashes == 1         \* process crashes followed by a restart
MaxWriteFailures == 2   \* json.dump calls that raise (disk full)
MaxTicks == 1           \* clock advances
TickSeconds == 86400    \* seconds the clock advances by in one step
MaxImages == 2          \* num_images of an image job / prompts of a bulk job
MaxFileRecords == 3     \* records of a jobs file found at first start

\* --------------------------------------------------------- program constants
RetentionSeconds == 86400

Kinds == {"image", "video", "i2v", "upscale", "bulk", "comfyui", "civitai"}

\* Managers derived from BaseJobManager (write inside the lock).
BaseKinds == {"bulk", "comfyui"}

Clients == {"c1"}

\* JobStatus / CivitaiDownloadStatus values
QUEUED == "queued"
DOWNLOADING == "downloading"
LOADING_MODEL == "loading_model"
GENERATING == "generating"
SAVING == "saving"
COMPLETED == "completed"
FAILED == "failed"
CANCELLED == "cancelled"

None == 0 - 1           \* Python None in an int/datetime field
NoJob == 0              \* Python None in current_job_id / an id
NoError == "None"       \* Python None in the error field

\* Exception texts (str(e))
ErrProcessor == "processor error"
ErrSave == "No space left on device"
ErrUnknownModel == "Unknown model"
ErrCancelled == "Cancelled by user"
ErrUnavailable == "ComfyUI server is not available"

\* ------------------------------------------------------------- job records
\* Job(...) as built by create_job: queued, progress 0, no timestamps but
\* created_at, no result, no error.
NewJob(id, n, t) ==
    [id |-> id, status |-> QUEUED, progress |-> 0, num |-> n,
     completed |-> 0, failed |-> 0,
     result |-> FALSE, error |-> NoError,
     created_at |-> t, started_at |-> None, completed_at |-> None]

DtFields == {"created_at", "started_at", "completed_at"}

\* datetime.isoformat() / datetime.fromisoformat(): a datetime t >= 0 is
\* written as the string code -(t+2); None (-1) is left alone by the
\* `if job_dict.get(dt_field)` guard.
IsoFormat(t) == 0 - t - 2
FromIsoFormat(s) == 0 - s - 2

\* job.model_dump() followed by the datetime conversion of _save_jobs.
JobToDict(job) ==
    [f \in DOMAIN job |->
        IF f \in DtFields /\ job[f] # None THEN IsoFormat(job[f]) ELSE job[f]]

\* The datetime conversion of _load_jobs followed by Job(**job_data).
DictToJob(d) ==
    [f \in DOMAIN d |->
        IF f \in DtFields /\ d[f] # None THEN FromIsoFormat(d[f]) ELSE d[f]]

\* ------------------------------------------------- the store: an ordered dict
Ids(js) == {js[i].id : i \in 1..Len(js)}
Has(js, id) == id \in Ids(js)
IndexOf(js, id) == CHOOSE i \in 1..Len(js) : js[i].id = id
Get(js, id) == js[IndexOf(js, id)]
Remove(js, id) == SelectSeq(js, LAMBDA j : j.id # id)

\* ---------------------------------------------------------- terminal states
TerminalStatuses(k) ==
    IF k = "civitai" THEN {COMPLETED, FAILED, CANCELLED} ELSE {COMPLETED, FAILED}

\* The statuses _load_jobs re-queues.
RequeuedByLoad(k, status) ==
    IF k = "civitai" THEN status \in {QUEUED, DOWNLOADING}
    ELSE status \notin {COMPLETED, FAILED}

\* ------------------------------------------- _process_job as an instruction list
\* An instruction is one of
\*   getjob   job = self.get_job(job_id); if not job: return
\*   update   self._update_job(job_id, **set)
\*   setres   with self.lock: self.jobs[job_id].images / .video = ...
\*   save     self._save_jobs()
\*   item     one fal.ai generation of a bulk job, its exception caught
\*   check    the cancellation check of a loop iteration
\*   ret      return
\* `try` tells whether the instruction is inside the try block of
\* _process_job.  `calls` names the calls into external collaborators (model
\* lookup, model load, generation, download, file output) the code makes
\* between the previous instruction and this one: "pretry" for a call made
\* before the try block, "try" for one made inside it.  Each may raise.
NoCalls == {}
PreTry == {"pretry"}
InsideTry == {"try"}
GetJob == [op |-> "getjob", try |-> FALSE, calls |-> NoCalls]
Update(set, try, calls) == [op |-> "update", set |-> set, try |-> try, calls |-> calls]
SetResult(calls) == [op |-> "setres", try |-> TRUE, calls |-> calls]
Save == [op |-> "save", try |-> FALSE, calls |-> NoCalls]
Item == [op |-> "item", try |-> FALSE, calls |-> NoCalls]
Check(target, try) == [op |-> "check", target |-> target, try |-> try, calls |-> NoCalls]
Return(try, calls) == [op |-> "ret", try |-> try, calls |-> calls]

\* The placeholders of an update: the clock reading and str(e).
NowValue == "now"
ExcText == "exc"

\* progress = (i / job.num_images) * 100, in whole percent.
ImageProgress(i, n) == (i * 100) \div n

\* JobManager._process_job: the loop over the images (generate, then save).
RECURSIVE ImageLoop(_, _)
ImageLoop(i, n) ==
    IF i >= n THEN <<>>
    ELSE << Update([status |-> GENERATING, progress |-> ImageProgress(i, n)],
                   TRUE, InsideTry),
            Update([status |-> SAVING], TRUE, InsideTry) >> \o ImageLoop(i + 1, n)

\* The head the diffusers managers (image, video, i2v) share: get_job,
\* get_model_config, the unknown-model exit, the download / cached branch.
DiffusersHead(variant) ==
    IF variant = "unknown_model"
    THEN << GetJob,
            Update([status |-> FAILED, error |-> ErrUnknownModel], FALSE, PreTry),
            Return(FALSE, NoCalls) >>
    ELSE IF variant = "download"
    THEN << GetJob,
            Update([status |-> DOWNLOADING, started_at |-> NowValue],
                   TRUE, PreTry \cup InsideTry),
            Update([status |-> LOADING_MODEL], TRUE, NoCalls) >>
    ELSE << GetJob,
            Update([status |-> LOADING_MODEL, started_at |-> NowValue],
                   TRUE, PreTry \cup InsideTry) >>

ImageProgram(variant, n) ==
    DiffusersHead(variant) \o
    IF variant = "unknown_model" THEN <<>>
    ELSE ImageLoop(0, n) \o
         << SetResult(InsideTry),
            Update([status |-> COMPLETED, progress |-> 100,
                    completed_at |-> NowValue], TRUE, NoCalls),
            Return(FALSE, NoCalls) >>

VideoProgramNoGenerating(variant) ==
    DiffusersHead(variant) \o
    IF variant = "unknown_model" THEN <<>>
    ELSE << Update([status |-> SAVING, progress |-> 90], TRUE, InsideTry),
            SetResult(InsideTry),
            Update([status |-> COMPLETED, progress |-> 100,
                    completed_at |-> NowValue], TRUE, NoCalls),
            Return(FALSE, NoCalls) >>
\* VideoJobManager._process_job and I2VJobManager._process_job.
VideoProgram(variant) ==
    DiffusersHead(variant) \o
    IF variant = "unknown_model" THEN <<>>
    ELSE << Update([status |-> GENERATING, progress |-> 10], TRUE, InsideTry),
            Update([status |-> SAVING, progress |-> 90], TRUE, InsideTry),
            SetResult(InsideTry),
            Update([status |-> COMPLETED, progress |-> 100,
                    completed_at |-> NowValue], TRUE, NoCalls),
            Return(FALSE, NoCalls) >>

\* scaled_progress = 5 + (progress_pct * 0.85), in whole percent.
UpscaleProgress(pct) == 5 + (pct * 85) \div 100

\* UpscaleJobManager._process_job, with one progress callback at 50%.
UpscaleProgram ==
    << GetJob,
       Update([status |-> LOADING_MODEL, started_at |-> NowValue], TRUE, PreTry),
       Update([status |-> GENERATING, progress |-> 5], TRUE, InsideTry),
       Update([progress |-> UpscaleProgress(50)], TRUE, InsideTry),
       Update([status |-> SAVING, progress |-> 90], TRUE, InsideTry),
       SetResult(InsideTry),
       Update([status |-> COMPLETED, progress |-> 100,
               completed_at |-> NowValue], TRUE, NoCalls),
       Return(FALSE, NoCalls) >>

\* ComfyUIJobManager._process_job / _process_job_async.
ComfyProgram(variant) ==
    IF variant = "unavailable"
    THEN << GetJob,
            Update([status |-> FAILED, error |-> ErrUnavailable,
                    completed_at |-> NowValue], TRUE, InsideTry),
            Return(TRUE, NoCalls) >>
    ELSE << GetJob,
            Update([status |-> GENERATING, started_at |-> NowValue,
                    progress |-> 10], TRUE, InsideTry),
            Update([progress |-> 20], TRUE, InsideTry),
            Update([status |-> SAVING, progress |-> 80], TRUE, InsideTry),
            SetResult(InsideTry),
            Update([status |-> COMPLETED, progress |-> 100,
                    completed_at |-> NowValue], TRUE, NoCalls),
            Return(TRUE, NoCalls) >>

\* BulkJobManager._process_job_async: the loop over job.items.  The loop
\* body is 4 instructions; `exit` is the index of the final Return.
RECURSIVE BulkLoop(_, _, _)
BulkLoop(i, n, exit) ==
    IF i >= n THEN <<>>
    ELSE << Check(exit, FALSE),
            Save,
            Item,
            Update([progress_done |-> TRUE], FALSE, NoCalls) >>
         \o BulkLoop(i + 1, n, exit)

BulkProgram(n) ==
    << GetJob,
       Update([status |-> GENERATING, started_at |-> NowValue], FALSE, PreTry),
       GetJob >> \o
    BulkLoop(0, n, 3 + 4 * n + 2) \o
    << Update([status |-> COMPLETED, progress |-> 100,
               completed_at |-> NowValue], FALSE, NoCalls),
       Return(FALSE, NoCalls) >>

\* CivitaiDownloadManager._process_download, one chunk of the stream.  The
\* last two instructions are the `if job_id in self._cancel_requested` exit;
\* the Return before them follows the metadata and registry writes.
CivitaiCancelExit == 8
CivitaiProgram ==
    << GetJob,
       Update([status |-> DOWNLOADING, started_at |-> NowValue], FALSE, NoCalls),
       Update(<<>>, TRUE, InsideTry),
       Check(CivitaiCancelExit, TRUE),
       Update([progress |-> 50], TRUE, InsideTry),
       Update([status |-> COMPLETED, progress |-> 100, result |-> TRUE,
               completed_at |-> NowValue], TRUE, NoCalls),
       Return(TRUE, InsideTry),
       Update([status |-> CANCELLED, completed_at |-> NowValue], TRUE, NoCalls),
       Return(TRUE, NoCalls) >>

Variants(k) ==
    IF k \in {"image", "video", "i2v"} THEN {"cached", "download", "unknown_model"}
    ELSE IF k = "comfyui" THEN {"ok", "unavailable"}
    ELSE {"ok"}

Program(k, variant, n) ==
    CASE k = "image" -> ImageProgram(variant, n)
      [] k \in {"video", "i2v"} -> VideoProgram(variant)
      [] k = "upscale" -> UpscaleProgram
      [] k = "comfyui" -> ComfyProgram(variant)
      [] k = "bulk" -> BulkProgram(n)
      [] OTHER -> CivitaiProgram

\* The except clause of _process_job: the fields it passes to _update_job.
\* BulkJobManager._process_job has no except clause.
HasExcept(k) == k # "bulk"
ExceptSetNoStatus(k) ==
    [error |-> ExcText, completed_at |-> NowValue]
ExceptSet(k) ==
    [status |-> FAILED, error |-> ExcText, completed_at |-> NowValue]

\* The except clause of _worker.
HandlerSet(k) ==
    IF k = "civitai"
    THEN [status |-> FAILED, error |-> ExcText, completed_at |-> NowValue]
    ELSE [status |-> FAILED, error |-> ExcText]

\* ----------------------------------------------------- requests, exceptions
\* config.yaml as get_model_config reads it: an id that is not configured,
\* an image model, a video model, an image-to-video model without size_gb,
\* and the one model of the upscaler service.
Models == {"missing", "sdxl", "ltx", "svd", "esrgan"}

NoConfig == [configured |-> FALSE]

get_model_config(m) ==
    CASE m = "sdxl" -> [type |-> "sdxl", size_gb |-> 7]
      [] m = "ltx" -> [type |-> "ltx2", size_gb |-> 24]
      [] m = "svd" -> [type |-> "svd"]
      [] m = "esrgan" -> [type |-> "upscale", size_gb |-> 1]
      [] OTHER -> NoConfig

\* model_config.get("size_gb", 12)
ModelSizeGb(cfg) == IF "size_gb" \in DOMAIN cfg THEN cfg.size_gb ELSE 12

\* The requests a client can send to the manager of kind k.  `source` is what
\* the request names as the image of an image-to-video job or the video of an
\* upscale job: nothing, an asset whose file does not exist, an asset that
\* exists; `workflow_id` is known to get_workflow_by_id or not.
Requests(k) ==
    CASE k = "video" ->
            { [model |-> m, source |-> "none", workflow_id |-> "known"] :
                m \in {"missing", "sdxl", "ltx"} }
      [] k = "i2v" ->
            { [model |-> m, source |-> src, workflow_id |-> "known"] :
                m \in {"missing", "ltx", "svd"},
                src \in {"none", "absent", "present"} }
      [] k = "upscale" ->
            { [model |-> m, source |-> src, workflow_id |-> "known"] :
                m \in {"missing", "esrgan"}, src \in {"absent", "present"} }
      [] k = "comfyui" ->
            { [model |-> "sdxl", source |-> "none", workflow_id |-> w] :
                w \in {"unknown", "known"} }
      [] OTHER -> { [model |-> "sdxl", source |-> "none", workflow_id |-> "known"] }

NoException == [type |-> "None", status_code |-> 0, detail |-> "None"]
HTTPException(code, detail) ==
    [type |-> "HTTPException", status_code |-> code, detail |-> detail]
ValueError(detail) == [type |-> "ValueError", status_code |-> 0, detail |-> detail]


\* The checks at the head of create_job, in the order of the code: the
\* exception it raises, or NoException when it goes on to build the job.
\* JobManager, BulkJobManager and create_download check nothing.
CreateJobException(k, request) ==
    LET model_config == get_model_config(request.model) IN
    CASE k = "video" ->
            IF model_config = NoConfig THEN ValueError(ErrUnknownModel)
            ELSE NoException
      [] k = "i2v" ->
            IF model_config = NoConfig THEN ValueError(ErrUnknownModel)
            ELSE IF model_config.type \notin {"video-i2v", "svd"}
            THEN ValueError("does not support I2V")
            ELSE IF request.source = "absent" THEN ValueError("Asset not found")
            ELSE IF request.source = "none"
            THEN ValueError("Must provide an image")
            ELSE NoException
      [] k = "upscale" ->
            IF request.source = "absent" THEN ValueError("Video asset not found")
            ELSE IF model_config = NoConfig THEN ValueError("Unknown upscale model")
            ELSE NoException
      [] k = "comfyui" ->
            IF request.workflow_id = "unknown" THEN ValueError("Workflow not found")
            ELSE NoException
      [] OTHER -> NoException

\* ------------------------------------------------------ the resource gate
GENERATION_OVERHEAD_GB == 5
MIN_FREE_MEMORY_PERCENT == 5
GPU_BUSY_THRESHOLD == 80
CPU_BUSY_THRESHOLD == 90

NoReason == "None"      \* Python None in rejection_reason
ReasonMemory == "Insufficient memory"
ReasonGpu == "GPU is busy"
ReasonCpu == "System is under heavy load"

\* get_system_resources(): the fields the check reads, is_available True and
\* no rejection_reason.
ResourceStatus(total, available, gpu, cpu) ==
    [memory_total_gb |-> total, memory_available_gb |-> available,
     gpu_utilization |-> gpu, cpu_percent |-> cpu,
     is_available |-> TRUE, rejection_reason |-> NoReason]

\* Readings of psutil and pynvml, in whole GB and whole percent.  Totals are
\* multiples of 20 GB, so that 5% of a total is a whole number of GB (as it
\* is, exactly, in the floating-point arithmetic of the code).
Readings ==
    { ResourceStatus(total, available, gpu, cpu) :
        total \in {40, 120}, available \in 17..36,
        gpu \in {None, 10, 80, 81}, cpu \in {10, 90, 91} }

\* The readings a request handler meets: a quiet machine, one short of memory
\* and busy, one with a busy GPU and CPU, one with a busy CPU only.
SystemLoads ==
    { ResourceStatus(40, 36, None, 10), ResourceStatus(40, 17, 81, 91),
      ResourceStatus(40, 36, 81, 91), ResourceStatus(40, 36, 80, 91) }

check_resources_for_videoGpuFirst(model_size_gb, status) ==
    LET buffer_gb == (status.memory_total_gb * MIN_FREE_MEMORY_PERCENT) \div 100
        required_gb == model_size_gb + GENERATION_OVERHEAD_GB
        needed_with_buffer == required_gb + buffer_gb
    IN  IF /\ status.gpu_utilization # None
           /\ status.gpu_utilization > GPU_BUSY_THRESHOLD
        THEN [status EXCEPT !.is_available = FALSE, !.rejection_reason = ReasonGpu]
        ELSE IF status.memory_available_gb < needed_with_buffer
        THEN [status EXCEPT !.is_available = FALSE, !.rejection_reason = ReasonMemory]
        ELSE IF status.cpu_percent > CPU_BUSY_THRESHOLD
        THEN [status EXCEPT !.is_available = FALSE, !.rejection_reason = ReasonCpu]
        ELSE [status EXCEPT !.is_available = TRUE]
check_resources_for_videoAtThreshold(model_size_gb, status) ==
    LET buffer_gb == (status.memory_total_gb * MIN_FREE_MEMORY_PERCENT) \div 100
        required_gb == model_size_gb + GENERATION_OVERHEAD_GB
        needed_with_buffer == required_gb + buffer_gb
    IN  IF status.memory_available_gb < needed_with_buffer
        THEN [status EXCEPT !.is_available = FALSE, !.rejection_reason = ReasonMemory]
        ELSE IF /\ status.gpu_utilization # None
                /\ status.gpu_utilization >= GPU_BUSY_THRESHOLD
        THEN [status EXCEPT !.is_available = FALSE, !.rejection_reason = ReasonGpu]
        ELSE IF status.cpu_percent > CPU_BUSY_THRESHOLD
        THEN [status EXCEPT !.is_available = FALSE, !.rejection_reason = ReasonCpu]
        ELSE [status EXCEPT !.is_available = TRUE]
\* check_resources_for_video over the reading `status`.
check_resources_for_video(model_size_gb, status) ==
    LET buffer_gb == (status.memory_total_gb * MIN_FREE_MEMORY_PERCENT) \div 100
        required_gb == model_size_gb + GENERATION_OVERHEAD_GB
        needed_with_buffer == required_gb + buffer_gb
    IN  IF status.memory_available_gb < needed_with_buffer
        THEN [status EXCEPT !.is_available = FALSE, !.rejection_reason = ReasonMemory]
        ELSE IF /\ status.gpu_utilization # None
                /\ status.gpu_utilization > GPU_BUSY_THRESHOLD
        THEN [status EXCEPT !.is_available = FALSE, !.rejection_reason = ReasonGpu]
        ELSE IF status.cpu_percent > CPU_BUSY_THRESHOLD
        THEN [status EXCEPT !.is_available = FALSE, !.rejection_reason = ReasonCpu]
        ELSE [status EXCEPT !.is_available = TRUE]

\* create_video_job / create_i2v_job before they reach the manager: the
\* HTTPException raised, or NoException when create_job is called.
RouteException(k, request, status) ==
    LET model_config == get_model_config(request.model)
        resource_status ==
            check_resources_for_video(ModelSizeGb(model_config), status)
    IN  IF model_config = NoConfig THEN HTTPException(400, ErrUnknownModel)
        ELSE IF k = "video" /\ model_config.type \notin {"video", "ltx2", "wan", "mochi"}
        THEN HTTPException(400, "is not a video model")
        ELSE IF k = "i2v" /\ model_config.type \notin {"video-i2v", "svd"}
        THEN HTTPException(400, "does not support I2V")
        ELSE IF k = "i2v" /\ request.source = "none"
        THEN HTTPException(400, "Must provide an image")
        ELSE IF ~resource_status.is_available
        THEN HTTPException(507, resource_status.rejection_reason)
        ELSE NoException

\* ---------------------------------------------------------------- the state
VARIABLES
    kind,              \* which manager this instance is
    now,               \* datetime.utcnow(), in seconds
    nextId,            \* the next uuid4 (ids are never reused)
    jobs,              \* self.jobs, in insertion order
    job_queue,         \* self.job_queue
    current_job_id,    \* self.current_job_id
    lock,              \* holder of self.lock, or "free"
    cancel_requested,  \* CivitaiDownloadManager._cancel_requested
    file,              \* the persisted jobs file
    worker,            \* position and locals of the worker thread
    client,            \* position and locals of each request thread
    crashes,           \* process crashes so far
    failures,          \* failed durable writes so far
    accepted,          \* ids create_job has returned and nobody has deleted
    loadedFrom,        \* the file as _load_jobs found it at construction
    booted,            \* TRUE until the first step after construction
    proc_raised,       \* ids whose processor call raised since construction
    reader,            \* a request thread serialising a job get_job returned
    raised,            \* the exception a rejected request is raising
    gate,              \* one call of check_resources_for_video
    accessor,          \* the module global of a get_*_manager and its callers
    other,             \* a second manager, of another kind, in the same process
    eta,               \* one call of _estimate_time from create_job
    pending,           \* I2VJobManager._pending_images and the jobs that use it
    tracker            \* the HFDownloadTracker of the process

vars == << kind, now, nextId, jobs, job_queue, current_job_id, lock,
           cancel_requested, file, worker, client, crashes, failures,
           accepted, loadedFrom, booted, proc_raised, reader,
           raised, gate, accessor, other, eta, pending, tracker >>

\* What the job managers never touch.
beyond == << eta, pending, tracker >>

\* ------------------------------------------------------- the persisted file
AbsentFile == [state |-> "absent", recs |-> <<>>]
TornFile == [state |-> "torn", recs |-> <<>>]
WrittenFile(recs) == [state |-> "ok", recs |-> recs]

\* jobs_data as _save_jobs builds it under the lock.
Snapshot(js) == [i \in 1..Len(js) |-> JobToDict(js[i])]

\* A record Job(**job_data) accepts.
ValidRecord(d) == "id" \in DOMAIN d

\* One record that cannot be turned into a job (a required field is missing).
CorruptRecord == [corrupt |-> TRUE]

\* The loop of _load_jobs over data["jobs"], from record i on; `acc` is
\* (self.jobs, self.job_queue).  An exception leaves the loop.
RECURSIVE LoadRecords(_, _, _, _, _)
LoadRecords(k, recs, i, t, acc) ==
    IF i > Len(recs) THEN acc
    ELSE IF ~ValidRecord(recs[i]) THEN acc
    ELSE LET job == DictToJob(recs[i]) IN
         IF RequeuedByLoad(k, job.status)
         THEN LET requeued ==
                    IF k = "civitai"
                    THEN [job EXCEPT !.status = QUEUED, !.progress = 0]
                    ELSE [job EXCEPT !.status = QUEUED]
              IN LoadRecords(k, recs, i + 1, t,
                             [jobs |-> Append(acc.jobs, requeued),
                              queue |-> Append(acc.queue, job.id)])
         ELSE IF k = "civitai" \/ t - job.created_at < RetentionSeconds
         THEN LoadRecords(k, recs, i + 1, t,
                          [jobs |-> Append(acc.jobs, job), queue |-> acc.queue])
         ELSE LoadRecords(k, recs, i + 1, t, acc)

\* _load_jobs: a missing file and a file json.load rejects load nothing.
LoadJobs(k, f, t) ==
    IF f.state # "ok" THEN [jobs |-> <<>>, queue |-> <<>>]
    ELSE LoadRecords(k, f.recs, 1, t, [jobs |-> <<>>, queue |-> <<>>])

\* ---------------------------------------------------------- thread records
IdleWorker ==
    [pc |-> "idle", job_id |-> NoJob, variant |-> "ok", n |-> 1, ip |-> 0,
     mode |-> "body", phase |-> "exec", err |-> NoError, snap |-> <<>>]

DeadWorker == [IdleWorker EXCEPT !.pc = "dead"]

IdleClient == [pc |-> "idle", op |-> "none", id |-> NoJob, snap |-> <<>>]

\* The thread of a GET /jobs/{job_id} request: the job it holds and the
\* fields it has read so far.
IdleReader == [pc |-> "idle", id |-> NoJob, status |-> "unread", progress |-> None]

\* No admission check under way.
NoGate ==
    [checked |-> FALSE, model_size_gb |-> 12,
     status |-> ResourceStatus(40, 36, None, 10)]

\* Threads that call get_job_manager() (or the accessor of the kind).
AccessorThreads == {"t1", "t2"}

NoInstance == 0         \* Python None in the module global

\* The module global before any call, and once one call has built the manager.
NeverCalled ==
    [instance |-> NoInstance, made |-> 0,
     caller |-> [t \in AccessorThreads |->
                   [pc |-> "idle", new |-> NoInstance, got |-> NoInstance]]]
CalledOnce == [NeverCalled EXCEPT !.instance = 1, !.made = 1]

\* The JobManager (image jobs) of the process, reduced to its lock, its
\* queue, its worker thread, one request thread and the status of one job.
IdleOther ==
    [present |-> TRUE, lock |-> "free", status |-> "none", job_queue |-> <<>>,
     current_job_id |-> NoJob, worker |-> "idle", client |-> "idle"]

\* No second manager is followed.
NoOther == [IdleOther EXCEPT !.present = FALSE]

\* ------------------------------------------------------- the ETA estimator
\* Image models: three of MODEL_BASE_TIMES and one registered from a Civitai
\* download ("civitai-1"), which is in no table of jobs.py.
ImageModels == {"sd-turbo", "flux-schnell", "sdxl-base", "civitai-1"}
VideoModels == {"cogvideox-2b", "ltx-2"}

\* MODEL_BASE_TIMES.get(model, 30) and VIDEO_MODEL_BASE_TIMES.get(model, 180)
BaseTime(k, model) ==
    IF k = "video"
    THEN CASE model = "cogvideox-2b" -> 90
           [] model = "ltx-2" -> 120
           [] OTHER -> 180
    ELSE CASE model = "sd-turbo" -> 2
           [] model = "flux-schnell" -> 15
           [] model = "sdxl-base" -> 35
           [] OTHER -> 30

\* default_steps inside _estimate_time
EstimatorDefaultSteps(k, model) ==
    IF k = "video" THEN 50
    ELSE CASE model \in {"sd-turbo", "sdxl-turbo"} -> 1
           [] model = "flux-schnell" -> 4
           [] OTHER -> 30

\* default_frames of the video estimator; the image estimator multiplies by
\* num_images.
EstimatorDefaultUnits(k) == IF k = "video" THEN 49 ELSE 1

MODEL_LOAD_TIME(k) == IF k = "video" THEN 60 ELSE 30

\* model_config["default_steps"] of a model registered from a Civitai download
\* (_register_model writes "default_steps": 20).
CivitaiDefaultSteps == 20

\* A number of seconds as an exact fraction.
Seconds(num, den) == [num |-> num, den |-> den]
SameSeconds(a, b) == a.num * b.den = b.num * a.den

\* _estimate_time(model, steps, units, include_model_load=True) with
\* service.current_model_id = current.
estimate_time(k, model, steps, units, current) ==
    LET default_steps == EstimatorDefaultSteps(k, model)
        default_units == EstimatorDefaultUnits(k)
        den == default_steps * default_units
        total == BaseTime(k, model) * steps * units
    IN  IF current # model
        THEN Seconds(total + MODEL_LOAD_TIME(k) * den, den)
        ELSE Seconds(total, den)

NoSteps == 0            \* request.steps absent

\* The submissions followed by the estimator: request.steps (absent only for
\* the Civitai model, whose default is in the source), the number of images
\* or frames, and the model the inference service holds.
EtaRequest(k, m, st, u, cur) ==
    [checked |-> FALSE, kind |-> k, model |-> m, request_steps |-> st,
     units |-> u, current |-> cur, steps |-> NoSteps,
     eta_seconds |-> Seconds(0, 1)]

EtaRequests ==
    { EtaRequest("image", m, st, u, cur) :
        m \in ImageModels, st \in {1, 4, 20, 30}, u \in 1..2,
        cur \in {"None", "sd-turbo", "civitai-1"} }
    \cup
    { EtaRequest("image", "civitai-1", NoSteps, u, cur) :
        u \in 1..2, cur \in {"None", "sd-turbo", "civitai-1"} }
    \cup
    { EtaRequest("video", m, st, u, cur) :
        m \in VideoModels, st \in {25, 50}, u \in {1, 49, 98},
        cur \in {"None", "ltx-2"} }

NoEta == EtaRequest("image", "sd-turbo", 1, 1, "None")

\* ------------------------------------------- the images of an I2V job
\* error of a job the except clause of _process_job has failed
MaxPendingJobs == 3

ErrSourceNotFound == "Source image not found"
ErrNoAttribute == "'I2VJobManager' object has no attribute '_pending_images'"

\* An I2VJobManager just constructed over an empty file: __init__ does not
\* create _pending_images.  `saved` is whether the source file of
\* source_image_urls exists in outputs/.
NoPending ==
    [attr |-> FALSE, images |-> {}, jobs |-> <<>>, job_queue |-> <<>>,
     restarts |-> 0]

\* ------------------------------------------------ the HF download tracker
HF_RETENTION_SECONDS == 300
MaxTrackerJobs == 2
MaxTrackerTicks == 2
TrackerIds == 1..(MaxTrackerJobs + 1)   \* the last id is never created

\* HFDownloadTracker(): no job; the request log is empty.  `raised` is the
\* exception the last call left with.
NoTracker ==
    [jobs |-> <<>>, logs |-> <<>>, now |-> 0, nextId |-> 1, raised |-> "None",
     called |-> "None"]

\* No estimate, no I2V job and no download is being followed.
Beyond ==
    /\ eta = NoEta
    /\ pending = NoPending
    /\ tracker = NoTracker

\* Outside the manager: no request is being rejected, no admission check is
\* under way, the accessor has built this manager, no second manager.
Apart ==
    /\ raised = NoException
    /\ gate = NoGate
    /\ accessor = CalledOnce
    /\ other = NoOther
    /\ Beyond

\* __init__ over file f at time t: _load_jobs, then the worker is started.
Constructed(k, f, t) ==
    /\ jobs = LoadJobs(k, f, t).jobs
    /\ job_queue = LoadJobs(k, f, t).queue
    /\ current_job_id = NoJob
    /\ lock = "free"
    /\ cancel_requested = {}
    /\ worker = IdleWorker
    /\ client = [c \in Clients |-> IdleClient]
    /\ loadedFrom = f
    /\ booted = TRUE
    /\ proc_raised = {}
    /\ reader = IdleReader

Init ==
    /\ kind \in Kinds
    /\ now = 0
    /\ nextId = 1
    /\ file = AbsentFile
    /\ crashes = 0
    /\ failures = 0
    /\ accepted = {}
    /\ Constructed(kind, AbsentFile, 0)
    /\ Apart

\* ------------------------------------------------------------ _update_job
\* total > 0 ? (done / total) * 100 : 0 of BulkJobManager, in whole percent.
BulkProgress(job) ==
    IF job.num > 0 THEN ((job.completed + job.failed) * 100) \div job.num ELSE 0

\* setattr(job, key, value) for every key of `set`; t is the clock reading
\* and e the text of the exception being handled.
ApplyUpdate(job, set, t, e) ==
    [f \in DOMAIN job |->
        IF f = "progress" /\ "progress_done" \in DOMAIN set THEN BulkProgress(job)
        ELSE IF f \notin DOMAIN set THEN job[f]
        ELSE IF f \in {"started_at", "completed_at"} THEN t
        ELSE IF f = "error" THEN (IF set[f] = ExcText THEN e ELSE set[f])
        ELSE set[f]]

\* The locked part of _update_job: a no-op when the id is not in the store.
UpdateJob(js, id, set, t, e) ==
    [i \in 1..Len(js) |->
        IF js[i].id = id THEN ApplyUpdate(js[i], set, t, e) ELSE js[i]]

\* ------------------------------------------------------------- the worker
Running == worker.pc = "run"
Instr == Program(kind, worker.variant, worker.n)[worker.ip]
CurOp == IF worker.mode = "body" THEN Instr.op ELSE "update"
CurSet ==
    IF worker.mode = "except" THEN ExceptSet(kind)
    ELSE IF worker.mode = "handler" THEN HandlerSet(kind)
    ELSE Instr.set
InTry == worker.mode = "body" /\ Instr.try
Calls ==
    IF Running /\ worker.mode = "body" /\ worker.phase = "exec"
    THEN Instr.calls ELSE {}

\* Where an exception with text e raised at the current position goes: the
\* except clause of _process_job, the except clause of _worker, or out of
\* the thread.
RaiseTo(e, inTry) ==
    IF worker.mode = "body" /\ inTry /\ HasExcept(kind)
    THEN [worker EXCEPT !.mode = "except", !.phase = "exec", !.err = e, !.snap = <<>>]
    ELSE IF worker.mode \in {"body", "except"}
    THEN [worker EXCEPT !.mode = "handler", !.phase = "exec", !.err = e, !.snap = <<>>]
    ELSE DeadWorker

Advance == [worker EXCEPT !.ip = @ + 1, !.phase = "exec", !.snap = <<>>]

\* What lies outside one manager instance.
aside == << raised, gate, accessor, other, beyond >>

ghosts == << crashes, accepted, loadedFrom, reader, aside >>

WorkerDequeueLast ==
    /\ worker.pc = "idle"
    /\ job_queue # <<>>
    /\ job_queue' = SubSeq(job_queue, 1, Len(job_queue) - 1)
    /\ \E v \in Variants(kind) :
         worker' = [IdleWorker EXCEPT
                      !.pc = IF kind = "civitai" THEN "precheck" ELSE "run",
                      !.job_id = job_queue[Len(job_queue)], !.variant = v, !.ip = 1]
    /\ current_job_id' = IF kind = "civitai" THEN current_job_id
                          ELSE job_queue[Len(job_queue)]
    /\ booted' = FALSE
    /\ UNCHANGED << kind, now, nextId, jobs, lock, cancel_requested, file,
                    client, failures, proc_raised, ghosts >>
\* job_id = self.job_queue.get(); self.current_job_id = job_id.  The Civitai
\* worker first looks the job up (WorkerPrecheck).
WorkerDequeue ==
    /\ worker.pc = "idle"
    /\ job_queue # <<>>
    /\ job_queue' = Tail(job_queue)
    /\ \E v \in Variants(kind) :
         worker' = [IdleWorker EXCEPT
                      !.pc = IF kind = "civitai" THEN "precheck" ELSE "run",
                      !.job_id = Head(job_queue), !.variant = v, !.ip = 1]
    /\ current_job_id' = IF kind = "civitai" THEN current_job_id ELSE Head(job_queue)
    /\ booted' = FALSE
    /\ UNCHANGED << kind, now, nextId, jobs, lock, cancel_requested, file,
                    client, failures, proc_raised, ghosts >>

\* CivitaiDownloadManager._worker: job = self.get_job(job_id); if not job or
\* job.status == CANCELLED: continue.
WorkerPrecheck ==
    /\ worker.pc = "precheck"
    /\ lock = "free"
    /\ IF Has(jobs, worker.job_id) /\ Get(jobs, worker.job_id).status # CANCELLED
       THEN /\ worker' = [worker EXCEPT !.pc = "run"]
            /\ current_job_id' = worker.job_id
       ELSE /\ worker' = IdleWorker
            /\ UNCHANGED current_job_id
    /\ booted' = FALSE
    /\ UNCHANGED << kind, now, nextId, jobs, job_queue, lock, cancel_requested,
                    file, client, failures, proc_raised, ghosts >>

\* job = self.get_job(job_id); if not job: return
WorkerGetJob ==
    /\ Running /\ CurOp = "getjob"
    /\ lock = "free"
    /\ IF Has(jobs, worker.job_id)
       THEN /\ worker' = [Advance EXCEPT !.n = IF worker.ip = 1
                                                THEN Get(jobs, worker.job_id).num
                                                ELSE worker.n]
            /\ UNCHANGED current_job_id
       ELSE /\ worker' = IdleWorker
            /\ current_job_id' = NoJob
    /\ booted' = FALSE
    /\ UNCHANGED << kind, now, nextId, jobs, job_queue, lock, cancel_requested,
                    file, client, failures, proc_raised, ghosts >>

\* One of the external calls made before the current instruction raises.
WorkerCallRaises ==
    /\ Running
    /\ \E c \in Calls : worker' = RaiseTo(ErrProcessor, c = "try")
    /\ proc_raised' = proc_raised \cup {worker.job_id}
    /\ booted' = FALSE
    /\ UNCHANGED << kind, now, nextId, jobs, job_queue, current_job_id, lock,
                    cancel_requested, file, client, failures, ghosts >>

\* _update_job, first half: with self.lock: setattr(...).  The progress
\* update of the bulk loop is skipped when get_job finds no job.
WorkerSetattr ==
    /\ Running /\ CurOp = "update" /\ worker.phase = "exec"
    /\ lock = "free"
    /\ IF worker.mode = "body" /\ "progress_done" \in DOMAIN CurSet
          /\ ~Has(jobs, worker.job_id)
       THEN /\ worker' = Advance
            /\ UNCHANGED jobs
       ELSE /\ jobs' = UpdateJob(jobs, worker.job_id, CurSet, now, worker.err)
            /\ worker' = [worker EXCEPT !.phase = "snap"]
    /\ booted' = FALSE
    /\ UNCHANGED << kind, now, nextId, job_queue, current_job_id, lock,
                    cancel_requested, file, client, failures, proc_raised, ghosts >>

\* with self.lock: self.jobs[job_id].images / .video = ...
WorkerSetResult ==
    /\ Running /\ CurOp = "setres"
    /\ lock = "free"
    /\ jobs' = UpdateJob(jobs, worker.job_id, [result |-> TRUE], now, worker.err)
    /\ worker' = Advance
    /\ booted' = FALSE
    /\ UNCHANGED << kind, now, nextId, job_queue, current_job_id, lock,
                    cancel_requested, file, client, failures, proc_raised, ghosts >>

\* One item of a bulk job: fal.ai returns an image (completed += 1) or raises
\* (failed += 1); both branches end in a locked update of the counters.
WorkerItem ==
    /\ Running /\ CurOp = "item"
    /\ lock = "free"
    /\ \E ok \in BOOLEAN :
         jobs' = [i \in 1..Len(jobs) |->
                    IF jobs[i].id # worker.job_id THEN jobs[i]
                    ELSE IF ok THEN [jobs[i] EXCEPT !.completed = @ + 1]
                    ELSE [jobs[i] EXCEPT !.failed = @ + 1]]
    /\ worker' = Advance
    /\ booted' = FALSE
    /\ UNCHANGED << kind, now, nextId, job_queue, current_job_id, lock,
                    cancel_requested, file, client, failures, proc_raised, ghosts >>

\* The cancellation check at the head of a loop iteration.
\*   bulk:    current_job = self.get_job(job_id)
\*            if not current_job or current_job.status == FAILED: return
\*   civitai: if job_id in self._cancel_requested: discard, mark cancelled
\* The cancellation check that only looks at the status of a job still in the
\* store (a deleted job keeps running).
WorkerCheckIgnoresDeleted ==
    /\ Running /\ CurOp = "check"
    /\ IF kind = "bulk"
       THEN /\ lock = "free"
            /\ worker' = IF Has(jobs, worker.job_id)
                            /\ Get(jobs, worker.job_id).status = FAILED
                         THEN [Advance EXCEPT !.ip = Instr.target]
                         ELSE Advance
            /\ UNCHANGED cancel_requested
       ELSE /\ worker' = IF worker.job_id \in cancel_requested
                         THEN [Advance EXCEPT !.ip = Instr.target]
                         ELSE Advance
            /\ cancel_requested' = cancel_requested \ {worker.job_id}
    /\ booted' = FALSE
    /\ UNCHANGED << kind, now, nextId, jobs, job_queue, current_job_id, lock,
                    file, client, failures, proc_raised, ghosts >>

WorkerCheck ==
    /\ Running /\ CurOp = "check"
    /\ IF kind = "bulk"
       THEN /\ lock = "free"
            /\ worker' = IF ~Has(jobs, worker.job_id)
                            \/ Get(jobs, worker.job_id).status = FAILED
                         THEN [Advance EXCEPT !.ip = Instr.target]
                         ELSE Advance
            /\ UNCHANGED cancel_requested
       ELSE /\ worker' = IF worker.job_id \in cancel_requested
                         THEN [Advance EXCEPT !.ip = Instr.target]
                         ELSE Advance
            /\ cancel_requested' = cancel_requested \ {worker.job_id}
    /\ booted' = FALSE
    /\ UNCHANGED << kind, now, nextId, jobs, job_queue, current_job_id, lock,
                    file, client, failures, proc_raised, ghosts >>

\* return from _process_job; self.current_job_id = None
WorkerReturn ==
    /\ Running /\ CurOp = "ret"
    /\ worker' = IdleWorker
    /\ current_job_id' = NoJob
    /\ booted' = FALSE
    /\ UNCHANGED << kind, now, nextId, jobs, job_queue, lock, cancel_requested,
                    file, client, failures, proc_raised, ghosts >>

\* ------------------------------------------------------------- _save_jobs
\* _save_jobs of the worker: with self.lock: build jobs_data.  The managers
\* derived from BaseJobManager keep the lock until the file is written.
WorkerSnapshot ==
    /\ Running
    /\ \/ CurOp = "update" /\ worker.phase = "snap"
       \/ CurOp = "save" /\ worker.phase = "exec"
    /\ lock = "free"
    /\ worker' = [worker EXCEPT !.phase = "write", !.snap = Snapshot(jobs)]
    /\ lock' = IF kind \in BaseKinds THEN "worker" ELSE "free"
    /\ booted' = FALSE
    /\ UNCHANGED << kind, now, nextId, jobs, job_queue, current_job_id,
                    cancel_requested, file, client, failures, proc_raised, ghosts >>

\* What the worker does once _update_job / _save_jobs has returned: the next
\* instruction, or, from an except clause, back to the top of the loop.
AfterSave ==
    IF worker.mode = "body" THEN Advance ELSE IdleWorker

\* open(jobs_file, "w") and json.dump write the snapshot; _update_job returns.
WorkerWrite ==
    /\ Running /\ worker.phase = "write"
    /\ file' = WrittenFile(worker.snap)
    /\ lock' = "free"
    /\ worker' = AfterSave
    /\ current_job_id' = IF worker.mode = "body" THEN current_job_id ELSE NoJob
    /\ booted' = FALSE
    /\ UNCHANGED << kind, now, nextId, jobs, job_queue, cancel_requested,
                    client, failures, proc_raised, ghosts >>

\* json.dump raises (disk full): the file stays truncated and the exception
\* leaves _save_jobs and _update_job.
WorkerWriteFails ==
    /\ Running /\ worker.phase = "write"
    /\ failures < MaxWriteFailures
    /\ failures' = failures + 1
    /\ file' = TornFile
    /\ lock' = "free"
    /\ worker' = RaiseTo(ErrSave, InTry)
    /\ booted' = FALSE
    /\ UNCHANGED << kind, now, nextId, jobs, job_queue, current_job_id,
                    cancel_requested, client, proc_raised, ghosts >>

\* --------------------------------------------------------- request threads
\* request.num_images / len(prompts) of the jobs submitted.
NumUnits(k) == IF k \in {"image", "bulk"} THEN MaxImages ELSE 1

CreateJobPutFirst(c) ==
    /\ client[c].pc = "idle"
    /\ nextId <= MaxJobs
    /\ job_queue' = Append(job_queue, nextId)
    /\ nextId' = nextId + 1
    /\ client' = [client EXCEPT ![c] = [pc |-> "put", op |-> "create",
                                        id |-> nextId, snap |-> <<>>]]
    /\ booted' = FALSE
    /\ UNCHANGED << kind, now, jobs, current_job_id, lock, cancel_requested,
                    file, worker, failures, proc_raised, ghosts >>
\* create_job, up to `with self.lock: self.jobs[job.id] = job`.
CreateJob(c) ==
    /\ client[c].pc = "idle"
    /\ nextId <= MaxJobs
    /\ lock = "free"
    /\ jobs' = Append(jobs, NewJob(nextId, NumUnits(kind), now))
    /\ nextId' = nextId + 1
    /\ client' = [client EXCEPT ![c] = [pc |-> "put", op |-> "create",
                                        id |-> nextId, snap |-> <<>>]]
    /\ booted' = FALSE
    /\ UNCHANGED << kind, now, job_queue, current_job_id, lock, cancel_requested,
                    file, worker, failures, proc_raised, ghosts >>

\* self.job_queue.put(job.id)
CreatePut(c) ==
    /\ client[c].pc = "put"
    /\ job_queue' = Append(job_queue, client[c].id)
    /\ client' = [client EXCEPT ![c].pc = "snap"]
    /\ booted' = FALSE
    /\ UNCHANGED << kind, now, nextId, jobs, current_job_id, lock,
                    cancel_requested, file, worker, failures, proc_raised, ghosts >>

\* BulkJobManager.delete_job on a stored job: mark it failed, drop it.
DeleteJob(c, id) ==
    /\ kind = "bulk"
    /\ client[c].pc = "idle"
    /\ lock = "free"
    /\ Has(jobs, id)
    /\ jobs' = Remove(jobs, id)
    /\ accepted' = accepted \ {id}
    /\ client' = [client EXCEPT ![c] = [pc |-> "snap", op |-> "delete",
                                        id |-> id, snap |-> <<>>]]
    /\ booted' = FALSE
    /\ UNCHANGED << kind, now, nextId, job_queue, current_job_id, lock,
                    cancel_requested, file, worker, failures, proc_raised,
                    crashes, loadedFrom, reader,
                    aside >>

\* CivitaiDownloadManager.cancel_download on a stored job.  On a queued or a
\* terminal job it calls self._save_jobs() with self.lock held; the lock is
\* not reentrant, so the thread never gets past that call.
CancelDownload(c, id) ==
    /\ kind = "civitai"
    /\ client[c].pc = "idle"
    /\ lock = "free"
    /\ Has(jobs, id)
    /\ LET job == Get(jobs, id) IN
       IF job.status = DOWNLOADING
       THEN /\ cancel_requested' = cancel_requested \cup {id}
            /\ UNCHANGED << jobs, lock, client, accepted >>
       ELSE IF job.status = QUEUED
       THEN /\ jobs' = UpdateJob(jobs, id, [status |-> CANCELLED], now, NoError)
            /\ lock' = c
            /\ client' = [client EXCEPT ![c] = [pc |-> "stuck", op |-> "cancel",
                                                id |-> id, snap |-> <<>>]]
            /\ UNCHANGED << cancel_requested, accepted >>
       ELSE /\ jobs' = Remove(jobs, id)
            /\ accepted' = accepted \ {id}
            /\ lock' = c
            /\ client' = [client EXCEPT ![c] = [pc |-> "stuck", op |-> "cancel",
                                                id |-> id, snap |-> <<>>]]
            /\ UNCHANGED cancel_requested
    /\ booted' = FALSE
    /\ UNCHANGED << kind, now, nextId, job_queue, current_job_id, file, worker,
                    failures, proc_raised, crashes, loadedFrom, reader,
                    aside >>

\* _save_jobs of a request thread: the snapshot under the lock.
ClientSnapshot(c) ==
    /\ client[c].pc = "snap"
    /\ lock = "free"
    /\ client' = [client EXCEPT ![c].pc = "write", ![c].snap = Snapshot(jobs)]
    /\ lock' = IF kind \in BaseKinds THEN c ELSE "free"
    /\ booted' = FALSE
    /\ UNCHANGED << kind, now, nextId, jobs, job_queue, current_job_id,
                    cancel_requested, file, worker, failures, proc_raised, ghosts >>

\* The file is written and the operation returns to its caller.
ClientWrite(c) ==
    /\ client[c].pc = "write"
    /\ file' = WrittenFile(client[c].snap)
    /\ lock' = "free"
    /\ accepted' = IF client[c].op = "create"
                   THEN accepted \cup {client[c].id} ELSE accepted
    /\ client' = [client EXCEPT ![c] = IdleClient]
    /\ booted' = FALSE
    /\ UNCHANGED << kind, now, nextId, jobs, job_queue, current_job_id,
                    cancel_requested, worker, failures, proc_raised,
                    crashes, loadedFrom, reader,
                    aside >>

\* json.dump raises: the operation raises to the HTTP layer.
ClientWriteFails(c) ==
    /\ client[c].pc = "write"
    /\ failures < MaxWriteFailures
    /\ failures' = failures + 1
    /\ file' = TornFile
    /\ lock' = "free"
    /\ client' = [client EXCEPT ![c] = IdleClient]
    /\ booted' = FALSE
    /\ UNCHANGED << kind, now, nextId, jobs, job_queue, current_job_id,
                    cancel_requested, worker, proc_raised, ghosts >>

\* ------------------------------------------------------- the environment
\* Time passes: a day goes by while the worker waits for the queue or for an
\* external call (everything else the threads do takes microseconds).
Tick ==
    /\ worker.pc # "run" \/ Calls # {}
    /\ now < MaxTicks * TickSeconds
    /\ now' = now + TickSeconds
    /\ booted' = FALSE
    /\ UNCHANGED << kind, nextId, jobs, job_queue, current_job_id, lock,
                    cancel_requested, file, worker, client, failures,
                    proc_raised, ghosts >>

\* A thread is between open(jobs_file, "w") and the end of json.dump.
Writing == worker.phase = "write" \/ \E c \in Clients : client[c].pc = "write"

\* The process dies at any point and is started again: every thread and the
\* whole in-memory state are gone, __init__ runs over the file as it is.  A
\* process that dies while a thread is writing leaves the file as it was
\* (the write had not begun) or truncated.  The restart comes at once or a
\* day later.
CrashRestart ==
    /\ crashes < MaxCrashes
    /\ crashes' = crashes + 1
    /\ \E f \in {file} \cup (IF Writing THEN {TornFile} ELSE {}),
          t \in {now} \cup (IF now < MaxTicks * TickSeconds
                            THEN {now + TickSeconds} ELSE {}) :
         /\ file' = f
         /\ now' = t
         /\ jobs' = LoadJobs(kind, f, t).jobs
         /\ job_queue' = LoadJobs(kind, f, t).queue
         /\ loadedFrom' = f
    /\ current_job_id' = NoJob
    /\ lock' = "free"
    /\ cancel_requested' = {}
    /\ worker' = IdleWorker
    /\ client' = [c \in Clients |-> IdleClient]
    /\ booted' = TRUE
    /\ proc_raised' = {}
    /\ reader' = IdleReader
    /\ raised' = NoException
    /\ UNCHANGED << kind, nextId, failures, accepted, gate, accessor, other, beyond >>

\* ------------------------------------------------------------- a reader
\* GET /jobs/{job_id}: get_job returns the Job object of the store itself,
\* not a copy, and the response is serialised from it field by field, in the
\* order of the model's fields (status before progress), after get_job has
\* released the lock.
ReaderGet(id) ==
    /\ reader.pc = "idle"
    /\ lock = "free"
    /\ Has(jobs, id)
    /\ reader' = [pc |-> "half", id |-> id,
                  status |-> Get(jobs, id).status, progress |-> None]
    /\ booted' = FALSE
    /\ UNCHANGED << kind, now, nextId, jobs, job_queue, current_job_id, lock,
                    cancel_requested, file, worker, client, failures,
                    proc_raised, crashes, accepted, loadedFrom, aside >>

\* The rest of the serialisation; a job deleted meanwhile is not followed.
ReaderFinish ==
    /\ reader.pc = "half"
    /\ reader' = IF Has(jobs, reader.id)
                 THEN [reader EXCEPT !.pc = "done",
                                     !.progress = Get(jobs, reader.id).progress]
                 ELSE IdleReader
    /\ booted' = FALSE
    /\ UNCHANGED << kind, now, nextId, jobs, job_queue, current_job_id, lock,
                    cancel_requested, file, worker, client, failures,
                    proc_raised, crashes, accepted, loadedFrom, aside >>

\* The response is sent.
ReaderReturn ==
    /\ reader.pc = "done"
    /\ reader' = IdleReader
    /\ booted' = FALSE
    /\ UNCHANGED << kind, now, nextId, jobs, job_queue, current_job_id, lock,
                    cancel_requested, file, worker, client, failures,
                    proc_raised, crashes, accepted, loadedFrom, aside >>

WorkerStep ==
    \/ WorkerDequeue \/ WorkerPrecheck \/ WorkerGetJob
    \/ WorkerCallRaises
    \/ WorkerSetattr \/ WorkerSetResult \/ WorkerItem \/ WorkerCheck
    \/ WorkerReturn
    \/ WorkerSnapshot \/ WorkerWrite

ClientStep ==
    \E c \in Clients :
        \/ CreateJob(c) \/ CreatePut(c)
        \/ \E id \in 1..MaxJobs : DeleteJob(c, id)
        \/ \E id \in 1..MaxJobs : CancelDownload(c, id)
        \/ ClientSnapshot(c) \/ ClientWrite(c)

FaultStep == WorkerWriteFails \/ \E c \in Clients : ClientWriteFails(c)

\* Normal operation: the worker, the request threads, the clock.
Next == WorkerStep \/ ClientStep \/ Tick

Spec == Init /\ [][Next]_vars

\* Normal operation with the scheduling the claims about progress assume:
\* the worker thread keeps running, and a request thread that has entered
\* create_job or delete_job runs to the end of the call.
ClientFinish ==
    \E c \in Clients : CreatePut(c) \/ ClientSnapshot(c) \/ ClientWrite(c)

SpecLive == Init /\ [][Next]_vars /\ WF_vars(WorkerStep) /\ WF_vars(ClientFinish)

\* Normal operation with a client polling a job.
ReaderStep ==
    \/ \E id \in 1..MaxJobs : ReaderGet(id)
    \/ ReaderFinish
    \/ ReaderReturn

NextRead == WorkerStep \/ ClientStep \/ ReaderStep

SpecRead == Init /\ [][NextRead]_vars

\* Operation on a disk whose writes can fail.
NextFault == WorkerStep \/ ClientStep \/ FaultStep

SpecFault == Init /\ [][NextFault]_vars

\* Operation with process crashes and restarts.
NextCrash == WorkerStep \/ ClientStep \/ CrashRestart

SpecCrash == Init /\ [][NextCrash]_vars

\* ------------------------------------------- start over a file found on disk
\* A record of a jobs file written by an earlier run: a job still queued, the
\* job the worker was processing, a job completed today or one completed
\* more than a day ago; or a record no job can be built from.
RecordShapes == {"queued", "active", "done", "old", "corrupt"}

PersistedRecord(k, id, shape) ==
    LET job == NewJob(id, NumUnits(k), TickSeconds) IN
    CASE shape = "queued" -> JobToDict(job)
      [] shape = "active" ->
            JobToDict([job EXCEPT
                         !.status = IF k = "civitai" THEN DOWNLOADING ELSE GENERATING,
                         !.progress = 50, !.started_at = TickSeconds])
      [] shape = "done" ->
            JobToDict([job EXCEPT !.status = COMPLETED, !.progress = 100,
                                  !.result = TRUE, !.started_at = TickSeconds,
                                  !.completed_at = TickSeconds])
      [] shape = "old" ->
            JobToDict([job EXCEPT !.status = COMPLETED, !.progress = 100,
                                  !.result = TRUE, !.created_at = 0,
                                  !.started_at = 0, !.completed_at = 0])
      [] OTHER -> CorruptRecord

\* Jobs are processed in file order: finished jobs come first, then at most
\* one job in progress, then the queued ones.
ShapeRank(shape) ==
    CASE shape \in {"done", "old"} -> 0
      [] shape = "active" -> 1
      [] shape = "queued" -> 2
      [] OTHER -> 0 - 1

PlausibleShapes(shapes) ==
    /\ \A i, j \in DOMAIN shapes :
         (i < j /\ shapes[i] # "corrupt" /\ shapes[j] # "corrupt")
            => ShapeRank(shapes[i]) <= ShapeRank(shapes[j])
    /\ Cardinality({i \in DOMAIN shapes : shapes[i] = "active"}) <= 1

InitialFiles(k) ==
    {AbsentFile} \cup
    { WrittenFile([i \in DOMAIN shapes |-> PersistedRecord(k, i, shapes[i])]) :
        shapes \in { sh \in UNION {[1..l -> RecordShapes] : l \in 0..MaxFileRecords} :
                        PlausibleShapes(sh) } }

InitLoad ==
    /\ kind \in Kinds
    /\ now = TickSeconds
    /\ nextId = MaxFileRecords + 1
    /\ file \in InitialFiles(kind)
    /\ crashes = 0
    /\ failures = 0
    /\ accepted = {}
    /\ Constructed(kind, file, now)
    /\ Apart

\* The worker runs through what the load queued.
NextLoad == WorkerStep

SpecLoad == InitLoad /\ [][NextLoad]_vars

\* ------------------------------------------------------ rejected requests
\* The frame of a request that is turned away.
manager == << kind, now, nextId, jobs, job_queue, current_job_id, lock,
              cancel_requested, file, worker, failures, proc_raised, crashes,
              accepted, loadedFrom, reader >>

CreateJobRaisesAfterInsert(c, request) ==
    /\ kind \in {"video", "i2v", "upscale", "comfyui"}
    /\ client[c].pc = "idle"
    /\ nextId <= MaxJobs
    /\ lock = "free"
    /\ CreateJobException(kind, request) # NoException
    /\ jobs' = Append(jobs, NewJob(nextId, NumUnits(kind), now))
    /\ nextId' = nextId + 1
    /\ raised' = CreateJobException(kind, request)
    /\ client' = [client EXCEPT ![c] = [pc |-> "raised", op |-> "create",
                                        id |-> NoJob, snap |-> <<>>]]
    /\ booted' = FALSE
    /\ UNCHANGED << kind, now, job_queue, current_job_id, lock, cancel_requested,
                    file, worker, failures, proc_raised, crashes, accepted,
                    loadedFrom, reader, gate, accessor, other, beyond >>
\* create_job called with a request its checks turn away: the ValueError
\* leaves create_job before the job is built.
CreateJobRaises(c, request) ==
    /\ kind \in {"video", "i2v", "upscale", "comfyui"}
    /\ client[c].pc = "idle"
    /\ CreateJobException(kind, request) # NoException
    /\ raised' = CreateJobException(kind, request)
    /\ client' = [client EXCEPT ![c] = [pc |-> "raised", op |-> "create",
                                        id |-> NoJob, snap |-> <<>>]]
    /\ booted' = FALSE
    /\ UNCHANGED << manager, beyond, gate, accessor, other >>

SubmitJobCreateFirst(c, request, status) ==
    /\ kind \in {"video", "i2v"}
    /\ client[c].pc = "idle"
    /\ nextId <= MaxJobs
    /\ lock = "free"
    /\ RouteException(kind, request, status) # NoException
    /\ jobs' = Append(jobs, NewJob(nextId, NumUnits(kind), now))
    /\ nextId' = nextId + 1
    /\ raised' = RouteException(kind, request, status)
    /\ client' = [client EXCEPT ![c] = [pc |-> "raised", op |-> "create",
                                        id |-> NoJob, snap |-> <<>>]]
    /\ booted' = FALSE
    /\ UNCHANGED << kind, now, job_queue, current_job_id, lock, cancel_requested,
                    file, worker, failures, proc_raised, crashes, accepted,
                    loadedFrom, reader, gate, accessor, other, beyond >>
\* POST /video/jobs and POST /i2v/jobs: the checks of the route, the resource
\* gate over the reading `status`, then create_job.
SubmitJob(c, request, status) ==
    /\ kind \in {"video", "i2v"}
    /\ client[c].pc = "idle"
    /\ IF RouteException(kind, request, status) # NoException
       THEN /\ raised' = RouteException(kind, request, status)
            /\ client' = [client EXCEPT ![c] = [pc |-> "raised", op |-> "create",
                                                id |-> NoJob, snap |-> <<>>]]
            /\ booted' = FALSE
            /\ UNCHANGED << manager, beyond, gate, accessor, other >>
       ELSE IF CreateJobException(kind, request) # NoException
       THEN CreateJobRaises(c, request)
       ELSE CreateJob(c)

\* The exception reaches the HTTP layer and the error response is sent.
RaiseReturn(c) ==
    /\ client[c].pc = "raised"
    /\ client' = [client EXCEPT ![c] = IdleClient]
    /\ raised' = NoException
    /\ booted' = FALSE
    /\ UNCHANGED << manager, beyond, gate, accessor, other >>

SubmitStep ==
    \E c \in Clients :
        \/ \E request \in Requests(kind), status \in SystemLoads :
              SubmitJob(c, request, status)
        \/ \E request \in Requests(kind) : CreateJobRaises(c, request)
        \/ RaiseReturn(c)

\* Normal operation with requests that can be turned away.
NextSubmit == WorkerStep \/ ClientStep \/ SubmitStep

SpecSubmit == Init /\ [][NextSubmit]_vars

\* ------------------------------------------------- one admission check
\* The inputs of one call of check_resources_for_video.
InitGate ==
    /\ kind \in {"video", "i2v"}
    /\ now = 0
    /\ nextId = 1
    /\ file = AbsentFile
    /\ crashes = 0
    /\ failures = 0
    /\ accepted = {}
    /\ Constructed(kind, AbsentFile, 0)
    /\ raised = NoException
    /\ accessor = CalledOnce
    /\ other = NoOther
    /\ Beyond
    /\ gate \in { [checked |-> FALSE, model_size_gb |-> ModelSizeGb(get_model_config(m)),
                   status |-> r] : m \in {"ltx", "svd"}, r \in Readings }

\* The call returns the status it has filled in.
CheckResources ==
    /\ ~gate.checked
    /\ gate' = [gate EXCEPT
                  !.checked = TRUE,
                  !.status = check_resources_for_video(gate.model_size_gb, gate.status)]
    /\ UNCHANGED << manager, beyond, client, booted, raised, accessor, other >>

SpecGate == InitGate /\ [][CheckResources]_vars

\* --------------------------------------------------- the manager accessor
\* get_job_manager() in a process that has not built its manager yet.
InitAccessor ==
    /\ kind \in Kinds
    /\ now = 0
    /\ nextId = 1
    /\ file = AbsentFile
    /\ crashes = 0
    /\ failures = 0
    /\ accepted = {}
    /\ Constructed(kind, AbsentFile, 0)
    /\ raised = NoException
    /\ gate = NoGate
    /\ accessor = NeverCalled
    /\ other = NoOther
    /\ Beyond

\* if _job_manager is None:
AccessorTest(t) ==
    /\ accessor.caller[t].pc = "idle"
    /\ accessor' = [accessor EXCEPT
                      !.caller[t].pc = IF accessor.instance = NoInstance
                                       THEN "construct" ELSE "return"]
    /\ UNCHANGED << manager, beyond, client, booted, raised, gate, other >>

\* JobManager(): __init__ loads the jobs file, makes a queue and a lock and
\* starts a worker thread.
AccessorConstruct(t) ==
    /\ accessor.caller[t].pc = "construct"
    /\ accessor' = [accessor EXCEPT !.made = @ + 1,
                                    !.caller[t].new = accessor.made + 1,
                                    !.caller[t].pc = "assign"]
    /\ UNCHANGED << manager, beyond, client, booted, raised, gate, other >>

\* _job_manager = <the new instance>
AccessorAssign(t) ==
    /\ accessor.caller[t].pc = "assign"
    /\ accessor' = [accessor EXCEPT !.instance = accessor.caller[t].new,
                                    !.caller[t].pc = "return"]
    /\ UNCHANGED << manager, beyond, client, booted, raised, gate, other >>

\* return _job_manager
AccessorReturn(t) ==
    /\ accessor.caller[t].pc = "return"
    /\ accessor' = [accessor EXCEPT !.caller[t].got = accessor.instance,
                                    !.caller[t].pc = "done"]
    /\ UNCHANGED << manager, beyond, client, booted, raised, gate, other >>

\* The caller uses the manager and comes back for it later.
AccessorAgain(t) ==
    /\ accessor.caller[t].pc = "done"
    /\ accessor' = [accessor EXCEPT !.caller[t].pc = "idle"]
    /\ UNCHANGED << manager, beyond, client, booted, raised, gate, other >>

NextAccessor ==
    \E t \in AccessorThreads :
        \/ AccessorTest(t) \/ AccessorConstruct(t) \/ AccessorAssign(t)
        \/ AccessorReturn(t) \/ AccessorAgain(t)

SpecAccessor == InitAccessor /\ [][NextAccessor]_vars

\* ------------------------------------------------------ a second manager
\* The stages _process_job of JobManager sets, in order.
NextStage(status) ==
    CASE status = QUEUED -> LOADING_MODEL
      [] status = LOADING_MODEL -> GENERATING
      [] status = GENERATING -> SAVING
      [] OTHER -> COMPLETED

\* create_job of the second manager, up to the insertion under its lock.
OtherCreateJob ==
    /\ other.present
    /\ other.client = "idle"
    /\ other.status = "none"
    /\ other.lock = "free"
    /\ other' = [other EXCEPT !.status = QUEUED, !.client = "put"]
    /\ booted' = FALSE
    /\ UNCHANGED << manager, beyond, client, raised, gate, accessor >>

\* self.job_queue.put(job.id)
OtherPut ==
    /\ other.client = "put"
    /\ other' = [other EXCEPT !.job_queue = Append(@, 1), !.client = "snap"]
    /\ booted' = FALSE
    /\ UNCHANGED << manager, beyond, client, raised, gate, accessor >>

\* _save_jobs of its request thread (its file is not followed).
OtherClientSave ==
    /\ other.client = "snap"
    /\ other.lock = "free"
    /\ other' = [other EXCEPT !.client = "idle"]
    /\ booted' = FALSE
    /\ UNCHANGED << manager, beyond, client, raised, gate, accessor >>

\* job_id = self.job_queue.get(); self.current_job_id = job_id
OtherDequeue ==
    /\ other.worker = "idle"
    /\ other.job_queue # <<>>
    /\ other' = [other EXCEPT !.job_queue = Tail(@),
                              !.current_job_id = Head(other.job_queue),
                              !.worker = "run"]
    /\ booted' = FALSE
    /\ UNCHANGED << manager, beyond, client, raised, gate, accessor >>

OtherAcquireShared ==
    /\ other.worker = "run"
    /\ lock = "free"
    /\ lock' = "other"
    /\ other' = [other EXCEPT !.lock = "worker", !.worker = "locked"]
    /\ booted' = FALSE
    /\ UNCHANGED << kind, now, nextId, jobs, job_queue, current_job_id,
                    cancel_requested, file, worker, failures, proc_raised,
                    crashes, accepted, loadedFrom, reader,
                    client, raised, gate, accessor, beyond >>
\* _update_job of its worker: `with self.lock:` on the manager's own lock.
OtherAcquire ==
    /\ other.worker = "run"
    /\ other.lock = "free"
    /\ other' = [other EXCEPT !.lock = "worker", !.worker = "locked"]
    /\ booted' = FALSE
    /\ UNCHANGED << manager, beyond, client, raised, gate, accessor >>

\* setattr under the lock, the lock released, then _save_jobs; after the
\* last stage _process_job returns and the worker clears current_job_id.
OtherSetattr ==
    /\ other.worker = "locked"
    /\ other' = [other EXCEPT
                   !.lock = "free",
                   !.status = NextStage(@),
                   !.worker = IF NextStage(other.status) = COMPLETED
                              THEN "idle" ELSE "run",
                   !.current_job_id = IF NextStage(other.status) = COMPLETED
                                      THEN NoJob ELSE @]
    /\ booted' = FALSE
    /\ UNCHANGED << manager, beyond, client, raised, gate, accessor >>

OtherWorkerStep == OtherDequeue \/ OtherAcquire \/ OtherSetattr

OtherStep == OtherCreateJob \/ OtherPut \/ OtherClientSave \/ OtherWorkerStep

\* A video manager and the image manager side by side.
InitPair ==
    /\ kind = "video"
    /\ now = 0
    /\ nextId = 1
    /\ file = AbsentFile
    /\ crashes = 0
    /\ failures = 0
    /\ accepted = {}
    /\ Constructed(kind, AbsentFile, 0)
    /\ raised = NoException
    /\ gate = NoGate
    /\ accessor = CalledOnce
    /\ other = IdleOther
    /\ Beyond

\* The steps of the worker and of the request threads of a video manager.
VideoWorkerStep ==
    \/ WorkerDequeue \/ WorkerGetJob \/ WorkerCallRaises
    \/ WorkerSetattr \/ WorkerSetResult \/ WorkerReturn
    \/ WorkerSnapshot \/ WorkerWrite

VideoClientStep ==
    \E c \in Clients :
        CreateJob(c) \/ CreatePut(c) \/ ClientSnapshot(c) \/ ClientWrite(c)

NextPair == VideoWorkerStep \/ VideoClientStep \/ OtherStep

SpecPair == InitPair /\ [][NextPair]_vars

\* ------------------------------------------------ start_download (Civitai)
\* Every download of the model is of one version_id.
\* j.status in ["queued", "downloading", "completed"]
Existing(js) ==
    { i \in 1..Len(js) : js[i].status \in {QUEUED, DOWNLOADING, COMPLETED} }

\* start_download that calls create_download whatever the store holds.
StartDownloadUnchecked(c) ==
    /\ kind = "civitai"
    /\ CreateJob(c)

\* start_download: the jobs of get_all_jobs() with this version_id that are
\* queued, downloading or completed; with one, it is returned (nothing
\* changes), without, create_download is called.  The route is a coroutine
\* without an await: no other request runs between the two.
StartDownload(c) ==
    /\ kind = "civitai"
    /\ Existing(jobs) = {}
    /\ CreateJob(c)

CivitaiWorkerStep ==
    \/ WorkerDequeue \/ WorkerPrecheck \/ WorkerGetJob
    \/ WorkerCallRaises
    \/ WorkerSetattr \/ WorkerCheck
    \/ WorkerReturn
    \/ WorkerSnapshot \/ WorkerWrite

CivitaiClientStep ==
    \E c \in Clients :
        \/ StartDownload(c) \/ CreatePut(c)
        \/ \E id \in 1..MaxJobs : CancelDownload(c, id)
        \/ ClientSnapshot(c) \/ ClientWrite(c)

InitStart ==
    /\ Init
    /\ kind = "civitai"

NextStart == CivitaiWorkerStep \/ CivitaiClientStep \/ CrashRestart

SpecStart == InitStart /\ [][NextStart]_vars

\* ------------------------------------------------- the estimate at submission
\* One manager of kind k, idle, with nothing else of the process followed.
Idle(k) ==
    /\ kind = k
    /\ now = 0
    /\ nextId = 1
    /\ file = AbsentFile
    /\ crashes = 0
    /\ failures = 0
    /\ accepted = {}
    /\ Constructed(k, AbsentFile, 0)
    /\ raised = NoException
    /\ gate = NoGate
    /\ accessor = CalledOnce
    /\ other = NoOther

InitEta ==
    /\ eta \in EtaRequests
    /\ Idle(eta.kind)
    /\ pending = NoPending
    /\ tracker = NoTracker

\* create_job: steps = request.steps if request.steps else
\* model_config["default_steps"]; eta_seconds = self._estimate_time(
\* request.model, steps, units, include_model_load=True)
EstimateAtSubmit ==
    /\ ~eta.checked
    /\ LET steps == IF eta.request_steps # NoSteps THEN eta.request_steps
                    ELSE CivitaiDefaultSteps
       IN  eta' = [eta EXCEPT
                     !.checked = TRUE,
                     !.steps = steps,
                     !.eta_seconds = estimate_time(eta.kind, eta.model, steps,
                                                   eta.units, eta.current)]
    /\ UNCHANGED << manager, client, booted, raised, gate, accessor, other,
                    pending, tracker >>

SpecEta == InitEta /\ [][EstimateAtSubmit]_vars

\* ----------------------------------------------- _pending_images of I2V jobs
PendingJob(id) == [id |-> id, status |-> QUEUED, error |-> "None", saved |-> TRUE]

\* create_job from _load_source_images on: the source file is saved, the
\* images are kept in _pending_images (created here when it does not exist),
\* the job is stored and queued.
PendingCreateJob ==
    /\ Len(pending.jobs) < MaxPendingJobs
    /\ LET id == Len(pending.jobs) + 1
       IN  pending' = [pending EXCEPT
                         !.attr = TRUE,
                         !.images = @ \cup {id},
                         !.jobs = Append(@, PendingJob(id)),
                         !.job_queue = Append(@, id)]
    /\ UNCHANGED << manager, client, booted, raised, gate, accessor, other,
                    eta, tracker >>

\* The saved source file of a job is removed from outputs/.
PendingSourceRemoved ==
    /\ \E i \in 1..Len(pending.jobs) :
          /\ pending.jobs[i].saved
          /\ pending.jobs[i].status = QUEUED
          /\ pending' = [pending EXCEPT !.jobs[i].saved = FALSE]
    /\ UNCHANGED << manager, client, booted, raised, gate, accessor, other,
                    eta, tracker >>

\* images = self._pending_images.pop(job_id, None) and what follows, for the
\* job at the head of the queue: the job goes on to the generator, or the
\* except clause of _process_job fails it with str(e).
PendingProcess ==
    /\ pending.job_queue # <<>>
    /\ LET id == Head(pending.job_queue)
           error == IF ~pending.attr THEN ErrNoAttribute
                    ELSE IF id \in pending.images THEN "None"
                    ELSE IF pending.jobs[id].saved THEN "None"
                    ELSE ErrSourceNotFound
       IN  pending' = [pending EXCEPT
                         !.job_queue = Tail(@),
                         !.images = IF pending.attr THEN @ \ {id} ELSE @,
                         !.jobs[id].status = IF error = "None" THEN GENERATING
                                             ELSE FAILED,
                         !.jobs[id].error = error]
    /\ UNCHANGED << manager, client, booted, raised, gate, accessor, other,
                    eta, tracker >>

\* The process stops and starts again: __init__ builds a manager without
\* _pending_images, _load_jobs requeues the jobs that are not failed.
PendingRestart ==
    /\ pending.restarts < MaxCrashes
    /\ pending.jobs # <<>>
    /\ LET requeued == [i \in 1..Len(pending.jobs) |->
                          IF pending.jobs[i].status = FAILED THEN pending.jobs[i]
                          ELSE [pending.jobs[i] EXCEPT !.status = QUEUED]]
       IN  pending' = [attr |-> FALSE,
                       images |-> {},
                       jobs |-> requeued,
                       job_queue |-> SelectSeq([i \in 1..Len(requeued) |-> i],
                                         LAMBDA i : requeued[i].status = QUEUED),
                       restarts |-> pending.restarts + 1]
    /\ UNCHANGED << manager, client, booted, raised, gate, accessor, other,
                    eta, tracker >>

InitPending ==
    /\ Idle("i2v")
    /\ eta = NoEta
    /\ pending = NoPending
    /\ tracker = NoTracker

NextPending ==
    PendingCreateJob \/ PendingSourceRemoved \/ PendingProcess \/ PendingRestart

SpecPending == InitPending /\ [][NextPending]_vars

\* --------------------------------------------------- HFDownloadTracker
Tracked(id) == \E i \in 1..Len(tracker.jobs) : tracker.jobs[i].id = id

\* update_log(log_id, updates): the entry of that id, when there is one.
update_log(logs, id, status) ==
    [i \in 1..Len(logs) |->
        IF logs[i].id = id THEN [logs[i] EXCEPT !.status = status] ELSE logs[i]]

\* job.status = status; job.completed_at = now, for the tracked job `id`.
TrackerEnd(js, id, status, t) ==
    [i \in 1..Len(js) |->
        IF js[i].id = id
        THEN [js[i] EXCEPT !.status = status, !.completed_at = t]
        ELSE js[i]]

TrackerCreateJob ==
    /\ tracker.nextId <= MaxTrackerJobs
    /\ tracker' = [tracker EXCEPT
                     !.jobs = Append(@, [id |-> tracker.nextId,
                                         status |-> "downloading",
                                         completed_at |-> None]),
                     !.logs = Append(@, [id |-> tracker.nextId,
                                         status |-> "downloading"]),
                     !.nextId = @ + 1,
                     !.raised = "None",
                     !.called = "create_job"]
    /\ UNCHANGED << manager, client, booted, raised, gate, accessor, other,
                    eta, pending >>

\* complete_job: duration_ms is assigned only inside `if job:`, and the call
\* of update_log after the lock reads it.
TrackerCompleteJob(id) ==
    /\ tracker' = IF Tracked(id)
                  THEN [tracker EXCEPT
                          !.jobs = TrackerEnd(@, id, "completed", tracker.now),
                          !.logs = update_log(@, id, "completed"),
                          !.raised = "None",
                          !.called = "complete_job"]
                  ELSE [tracker EXCEPT
                          !.raised = "UnboundLocalError",
                          !.called = "complete_job"]
    /\ UNCHANGED << manager, client, booted, raised, gate, accessor, other,
                    eta, pending >>

TrackerFailJob(id) ==
    /\ tracker' = [tracker EXCEPT
                     !.jobs = TrackerEnd(@, id, "failed", tracker.now),
                     !.logs = update_log(@, id, "failed"),
                     !.raised = "None",
                     !.called = "fail_job"]
    /\ UNCHANGED << manager, client, booted, raised, gate, accessor, other,
                    eta, pending >>

\* cleanup_old_jobs: completed and failed jobs ended more than 300 s ago go.
TrackerCleanup ==
    /\ tracker' = [tracker EXCEPT
                     !.jobs = SelectSeq(@, LAMBDA j :
                                 ~(/\ j.status \in {"completed", "failed"}
                                   /\ j.completed_at # None
                                   /\ tracker.now - j.completed_at
                                         > HF_RETENTION_SECONDS)),
                     !.raised = "None",
                     !.called = "cleanup_old_jobs"]
    /\ UNCHANGED << manager, client, booted, raised, gate, accessor, other,
                    eta, pending >>

\* Time passes: one second more than the retention of the tracker.
TrackerTick ==
    /\ tracker.now < MaxTrackerTicks * (HF_RETENTION_SECONDS + 1)
    /\ tracker' = [tracker EXCEPT !.now = @ + HF_RETENTION_SECONDS + 1]
    /\ UNCHANGED << manager, client, booted, raised, gate, accessor, other,
                    eta, pending >>

InitTracker ==
    /\ Idle("image")
    /\ eta = NoEta
    /\ pending = NoPending
    /\ tracker = NoTracker

NextTracker ==
    \/ TrackerCreateJob
    \/ \E id \in TrackerIds : TrackerCompleteJob(id)
    \/ \E id \in TrackerIds : TrackerFailJob(id)
    \/ TrackerCleanup
    \/ TrackerTick

SpecTracker == InitTracker /\ [][NextTracker]_vars

\* ================================================================ properties
Terminal(j) == j.status \in {COMPLETED, FAILED}
Count(q, id) == Cardinality({i \in 1..Len(q) : q[i] = id})
WorkerResting == worker.pc \in {"idle", "dead"}
Quiescent == worker.pc = "idle" /\ \A c \in Clients : client[c].pc = "idle"

\* C1: once a job's status is completed or failed, no later operation of the
\* same run changes its status or any other field while it is in the store.
C1_TerminalAbsorbing ==
    [][\A i \in 1..Len(jobs) :
          (Terminal(jobs[i]) /\ Has(jobs', jobs[i].id))
             => Get(jobs', jobs[i].id) = jobs[i]]_vars

\* C2: in every state a reader can observe, a completed or failed job has
\* exactly one of result and error set, and any other job has neither
\* (for the managers whose jobs carry a result: all but bulk).
C2_ExactlyOneTerminalField ==
    kind # "bulk" =>
        \A i \in 1..Len(jobs) :
            IF Terminal(jobs[i])
            THEN jobs[i].result # (jobs[i].error # NoError)
            ELSE ~jobs[i].result /\ jobs[i].error = NoError

\* C3: right after construction every job the file holds with a non-terminal
\* status is in the store and on the queue exactly once, and no job the file
\* holds with a terminal status is on the queue.
C3_RequeuedExactlyOnce ==
    booted =>
        \A i \in 1..Len(loadedFrom.recs) :
            LET r == loadedFrom.recs[i] IN
            ValidRecord(r) =>
                IF r.status \in TerminalStatuses(kind)
                THEN Count(job_queue, r.id) = 0
                ELSE Has(jobs, r.id) /\ Count(job_queue, r.id) = 1

\* C4: right after construction every job the file holds with a non-terminal
\* status has status queued and progress 0 in the store.
C4_RecoveredQueuedAtZero ==
    booted =>
        \A i \in 1..Len(loadedFrom.recs) :
            LET r == loadedFrom.recs[i] IN
            (ValidRecord(r) /\ r.status \notin TerminalStatuses(kind))
                => /\ Has(jobs, r.id)
                   /\ Get(jobs, r.id).status = QUEUED
                   /\ Get(jobs, r.id).progress = 0

\* C5: at most one job of the manager is being processed (its status is none
\* of the resting ones), and the [started_at, completed_at] intervals of two
\* jobs never overlap.
BeingProcessed(j) == j.status \notin {QUEUED, COMPLETED, FAILED, CANCELLED}
HasInterval(j) == j.started_at # None /\ j.completed_at # None
C6_ProcessorFailureRecorded ==
    \A id \in proc_raised :
        (WorkerResting \/ worker.job_id # id)
            => /\ worker.pc # "dead"
               /\ Has(jobs, id) =>
                    /\ Get(jobs, id).status = FAILED
                    /\ Get(jobs, id).error = ErrProcessor

\* C7: after a crash and a restart over an intact file, the store contains
\* every job create_job had returned, but for the terminal ones that the
\* 24-hour retention of _load_jobs has dropped.
Expired(id) ==
    \E i \in 1..Len(loadedFrom.recs) :
        LET r == loadedFrom.recs[i] IN
        /\ ValidRecord(r) /\ r.id = id
        /\ r.status \in TerminalStatuses(kind)
        /\ now - FromIsoFormat(r.created_at) >= RetentionSeconds
C7_AcceptedSurviveRestart ==
    (crashes > 0 /\ booted /\ loadedFrom.state = "ok")
        => \A id \in accepted : Has(jobs, id) \/ Expired(id)

\* C8: whenever no create_job, _update_job, delete or cancel call is in
\* flight and the worker is between jobs, the file holds the in-memory map.
C8_FileMatchesStore ==
    Quiescent => file.recs = Snapshot(jobs)

\* C9: the worker thread is never ended by a failing durable write.
C9_WorkerAlive == worker.pc # "dead"

\* C10: whatever records the file holds that cannot be turned into a job,
\* every other record is loaded: the non-terminal ones are in the store and
\* on the queue, the terminal ones of the last 24 hours are in the store.
C10_OnlyCorruptRecordSkipped ==
    booted =>
        \A i \in 1..Len(loadedFrom.recs) :
            LET r == loadedFrom.recs[i] IN
            ValidRecord(r) =>
                IF r.status \notin TerminalStatuses(kind)
                THEN Has(jobs, r.id) /\ Count(job_queue, r.id) > 0
                ELSE (now - FromIsoFormat(r.created_at) < RetentionSeconds)
                        => Has(jobs, r.id)

\* C11: at every instant, a process crash in the middle of _save_jobs
\* included, the file holds a complete snapshot: it is never left truncated
\* or partly written.
C11_FileAlwaysComplete == file.state # "torn"

\* C12: a job create_job has returned is in the store, a job create_job is
\* still working on is in the store from the insertion on, and every id on
\* the queue is the id of a stored job (or, in the managers that can delete
\* jobs, of a job that was stored and has been deleted since).
C12_StoredBeforeQueued ==
    /\ \A id \in accepted : Has(jobs, id)
    /\ \A c \in Clients :
          (client[c].op = "create" /\ client[c].pc # "idle")
             => Has(jobs, client[c].id)
    /\ \A i \in 1..Len(job_queue) :
          \/ Has(jobs, job_queue[i])
          \/ kind \in {"bulk", "civitai"} /\ job_queue[i] < nextId

\* create_job has returned a job the worker has not dequeued yet.
C12_Witness ==
    \E id \in accepted :
        /\ Count(job_queue, id) = 1
        /\ Has(jobs, id) /\ Get(jobs, id).status = QUEUED
        /\ worker.pc = "idle"

\* C13: under fair scheduling every job create_job has returned eventually
\* has a terminal status (or has been deleted by its owner).
Settled(id) ==
    ~Has(jobs, id) \/ Get(jobs, id).status \in TerminalStatuses(kind)
C13_EventuallyTerminal ==
    \A id \in 1..MaxJobs : (id \in accepted) ~> Settled(id)

\* C14: a cancel_download call that has marked a queued download cancelled
\* returns to its caller, and the worker does not download that job.
C14_QueuedCancelReturns ==
    kind = "civitai" =>
        \A c \in Clients :
            (/\ client[c].op = "cancel"
             /\ Has(jobs, client[c].id)
             /\ Get(jobs, client[c].id).status = CANCELLED)
                => /\ client[c].pc # "stuck"
                   /\ ~(Running /\ worker.job_id = client[c].id /\ worker.ip > 2)

\* C15: no request thread is ever waiting for a lock that will not be
\* released.
C15_NoCallBlocksForever ==
    \A c \in Clients : ~(client[c].pc = "stuck" /\ lock = c)

\* C16: the fields a reader returns are those the job had in the store at
\* one instant.  In the store a queued job always has progress 0 and a
\* completed job progress 100 (StoreConsistent), so a response must pair
\* them the same way.
Consistent(status, progress) ==
    /\ status = QUEUED => progress = 0
    /\ status = COMPLETED => progress = 100
StoreConsistent ==
    \A i \in 1..Len(jobs) : Consistent(jobs[i].status, jobs[i].progress)
C16_NoTornRead ==
    reader.pc = "done" => Consistent(reader.status, reader.progress)

\* C17: a step that makes a job's status saving starts from the status
\* generating: saving never follows queued, downloading or loading_model
\* directly, so a job that is saving was generating earlier in the run.
C17_SavingAfterGenerating ==
    [][\A i \in 1..Len(jobs) :
          (/\ Has(jobs', jobs[i].id)
           /\ Get(jobs', jobs[i].id).status = SAVING
           /\ jobs[i].status # SAVING)
             => jobs[i].status = GENERATING]_vars

\* A job is in the saving stage.
C17_Witness == \E i \in 1..Len(jobs) : jobs[i].status = SAVING

\* C18: within a run a job's status only moves forward through queued,
\* downloading, loading_model, generating, saving and the final statuses.
StageRank(status) ==
    CASE status = QUEUED -> 0
      [] status = DOWNLOADING -> 1
      [] status = LOADING_MODEL -> 2
      [] status = GENERATING -> 3
      [] status = SAVING -> 4
      [] OTHER -> 5
C18_StatusMovesForward ==
    [][\A i \in 1..Len(jobs) :
          Has(jobs', jobs[i].id)
             => StageRank(Get(jobs', jobs[i].id).status)
                    >= StageRank(jobs[i].status)]_vars

\* C19: from one step of a run to the next a job's progress never goes
\* down, the run after a crash-recovery re-queue included (the restart
\* itself, which re-queues, is not a step of a run).
C19_ProgressMonotonic ==
    [][crashes' = crashes =>
          \A i \in 1..Len(jobs) :
              Has(jobs', jobs[i].id)
                 => Get(jobs', jobs[i].id).progress >= jobs[i].progress]_vars

\* C20: a queued job has no started_at and a job that is not terminal has
\* no completed_at, right after a crash recovery too.
C20_TimestampsUnset ==
    \A i \in 1..Len(jobs) :
        /\ jobs[i].status = QUEUED => jobs[i].started_at = None
        /\ jobs[i].status \notin TerminalStatuses(kind)
              => jobs[i].completed_at = None

\* C21: current_job_id is None whenever the worker waits for the queue, and
\* while it is not None it is the id of the job the worker has dequeued and
\* is still working on.
C21_CurrentJobId ==
    /\ worker.pc = "idle" => current_job_id = NoJob
    /\ current_job_id # NoJob
          => worker.pc = "run" /\ worker.job_id = current_job_id

\* C22: the queue is first in, first out: an id is added at the tail, the
\* worker takes the id at the head, and the job it starts is that one (a
\* restart builds a new queue, in file order).
C22_Fifo ==
    [][crashes' = crashes =>
          /\ Len(job_queue') > Len(job_queue)
                => \E id \in 1..MaxJobs : job_queue' = Append(job_queue, id)
          /\ Len(job_queue') < Len(job_queue)
                => /\ job_queue' = Tail(job_queue)
                   /\ worker'.job_id = Head(job_queue)]_vars

\* The worker has started the job enqueued first while the one enqueued
\* after it is waiting.
C22_Witness ==
    /\ Running /\ worker.job_id = 1
    /\ job_queue = << 2 >>

\* C24: a step of a request thread neither changes nor removes a job
\* create_job has returned.
C24_SingleWriter ==
    [][(worker' = worker /\ crashes' = crashes)
          => \A id \in accepted :
                Has(jobs, id) => /\ Has(jobs', id)
                                 /\ Get(jobs', id) = Get(jobs, id)]_vars

\* C23: exactly one manager instance (hence one worker thread and one queue)
\* exists per job kind for the lifetime of the process, even when the
\* accessor is first called from several threads at once.
C23_OneInstance ==
    /\ accessor.made <= 1
    /\ \A t \in AccessorThreads :
         accessor.caller[t].pc = "done" => accessor.caller[t].got = 1

\* C25: managers of different kinds run independently: the worker of each
\* can take a step unless its own queue is empty or a request thread of its
\* own manager holds its own lock, whatever the other manager is doing.
C25_Independent ==
    /\ Running => (ENABLED VideoWorkerStep \/ lock \in Clients)
    /\ worker.pc = "idle" => (ENABLED VideoWorkerStep \/ job_queue = <<>>)
    /\ other.worker # "idle" => ENABLED OtherWorkerStep
    /\ other.worker = "idle" => (ENABLED OtherWorkerStep \/ other.job_queue = <<>>)

\* An image job and a video job are being processed at the same time.
C25_Witness ==
    /\ Running
    /\ Has(jobs, worker.job_id)
    /\ BeingProcessed(Get(jobs, worker.job_id))
    /\ other.worker # "idle"
    /\ other.status \in {LOADING_MODEL, GENERATING, SAVING}

\* The three conditions of the gate, as the specification states them.
MemoryShort ==
    100 * gate.status.memory_available_gb
        < 100 * (gate.model_size_gb + 5) + 5 * gate.status.memory_total_gb
GpuBusy == gate.status.gpu_utilization # None /\ gate.status.gpu_utilization > 80
CpuBusy == gate.status.cpu_percent > 90

\* C26: the gate reports the first failing check in the order memory, GPU,
\* CPU: the memory reason whenever memory is short, whatever the GPU and CPU
\* load; the GPU reason when memory suffices and the GPU is busy, whatever
\* the CPU load.
C26_GatePriority ==
    gate.checked =>
        /\ MemoryShort => gate.status.rejection_reason = ReasonMemory
        /\ (~MemoryShort /\ GpuBusy) => gate.status.rejection_reason = ReasonGpu
        /\ (~MemoryShort /\ ~GpuBusy /\ CpuBusy)
              => gate.status.rejection_reason = ReasonCpu

C26_Witness ==
    /\ gate.checked
    /\ MemoryShort /\ GpuBusy /\ CpuBusy
    /\ gate.status.rejection_reason = ReasonMemory

\* C27: is_available is False exactly when memory is short, or the GPU
\* utilization is known and above 80, or the CPU utilization is above 90;
\* otherwise it is True with no rejection_reason; an unknown GPU utilization
\* never causes a rejection.
C27_GateDecision ==
    gate.checked =>
        /\ ~gate.status.is_available <=> (MemoryShort \/ GpuBusy \/ CpuBusy)
        /\ gate.status.is_available => gate.status.rejection_reason = NoReason
        /\ ~gate.status.is_available => gate.status.rejection_reason # NoReason
        /\ gate.status.gpu_utilization = None
              => gate.status.rejection_reason # ReasonGpu

\* Accepted with every reading exactly at its threshold.
C27_Witness ==
    /\ gate.checked
    /\ gate.status.is_available
    /\ 100 * gate.status.memory_available_gb
          = 100 * (gate.model_size_gb + 5) + 5 * gate.status.memory_total_gb
    /\ gate.status.gpu_utilization = 80
    /\ gate.status.cpu_percent = 90

\* C28: when the resource gate rejects a video or image-to-video request no
\* job is created: no id is drawn, and the store, the queue and the file are
\* as they were.
C28_GateRejectionCreatesNothing ==
    [][(raised' # raised /\ raised'.status_code = 507)
          => /\ nextId' = nextId
             /\ jobs' = jobs
             /\ job_queue' = job_queue
             /\ file' = file]_vars

C28_Witness ==
    /\ raised.status_code = 507
    /\ jobs # <<>>
    /\ file.state = "ok"

\* C29: when create_job rejects a request for a validation reason it raises
\* before any job is added: the store and the queue are unchanged.
C29_ValidationBeforeInsert ==
    [][(raised' # raised /\ raised'.type = "ValueError")
          => /\ jobs' = jobs
             /\ job_queue' = job_queue]_vars

C29_Witness ==
    /\ raised.type = "ValueError"
    /\ jobs # <<>>

\* A record of a finished job that _load_jobs leaves out of the store.
OldRecord(r) ==
    /\ ValidRecord(r)
    /\ r.status \in {COMPLETED, FAILED}
    /\ now - FromIsoFormat(r.created_at) >= RetentionSeconds
\* C30: the record of a terminal job older than the retention window, which
\* _load_jobs leaves out of the store, stays in the persisted file.
C30_HistoryKept ==
    \A i \in 1..Len(loadedFrom.recs) :
        OldRecord(loadedFrom.recs[i])
           => \E j \in 1..Len(file.recs) :
                 ValidRecord(file.recs[j])
                    /\ file.recs[j].id = loadedFrom.recs[i].id


\* C32: every bulk job, in every state, a re-run after a restart included,
\* has completed + failed <= total and 0 <= progress <= 100, and
\* completed + failed = total once its status is completed.
C32_BulkCounters ==
    kind = "bulk" =>
        \A i \in 1..Len(jobs) :
            /\ jobs[i].completed + jobs[i].failed <= jobs[i].num
            /\ 0 <= jobs[i].progress /\ jobs[i].progress <= 100
            /\ jobs[i].status = COMPLETED
                  => jobs[i].completed + jobs[i].failed = jobs[i].num

\* C33: every job whose status is completed or failed has completed_at set,
\* whichever path made it terminal.
C33_TerminalHasCompletedAt ==
    \A i \in 1..Len(jobs) :
        jobs[i].status \in {COMPLETED, FAILED} => jobs[i].completed_at # None

\* delete_job has returned True for the bulk job `id`.
Deleted(id) ==
    /\ kind = "bulk"
    /\ id < nextId
    /\ ~Has(jobs, id)
    /\ \A c \in Clients : client[c].pc = "idle" \/ client[c].id # id

\* C35: after delete_job has returned True for a bulk job, the job stays out
\* of the store and of the persisted file, every cancellation check of the
\* worker on it leaves the loop (no further item is started), and the worker
\* that takes its id from the queue returns at once.
C35_DeletedStaysDeleted ==
    [][\A id \in 1..MaxJobs :
          Deleted(id) =>
             /\ Deleted(id)'
             /\ \A i \in 1..Len(file.recs) : file.recs[i].id # id
             /\ \A i \in 1..Len(file'.recs) : file'.recs[i].id # id
             /\ (Running /\ worker.job_id = id /\ worker' # worker)
                   => /\ CurOp = "check" => worker'.ip = Instr.target
                      /\ CurOp = "getjob" => worker' = IdleWorker]_vars

\* A job deleted while the worker was between two items of it.
C35_Witness ==
    /\ Deleted(1)
    /\ Running /\ worker.job_id = 1 /\ CurOp = "check"
    /\ file.state = "ok"

\* C36: a Civitai job for which cancel_download returned True while it was
\* downloading never ends completed with its id still in _cancel_requested:
\* the request is consumed and the job ends cancelled.
C36_CancelledNeverCompletes ==
    \A id \in cancel_requested :
        Has(jobs, id) => Get(jobs, id).status # COMPLETED

\* C38: when create_job raises because the write of _save_jobs failed, the
\* job is neither in the store nor on the queue.
C38_CreateAllOrNothing ==
    [][\A c \in Clients :
          (/\ client[c].pc = "write" /\ client[c].op = "create"
           /\ failures' > failures /\ client'[c].pc = "idle")
             => /\ ~Has(jobs', client[c].id)
                /\ Count(job_queue', client[c].id) = 0]_vars


\* The estimate the claim's rule gives the job of `eta`.
EtaRule ==
    LET k == eta.kind
        den == EstimatorDefaultSteps(k, eta.model) * EstimatorDefaultUnits(k)
        product == BaseTime(k, eta.model) * eta.steps * eta.units
    IN  Seconds(product + (IF eta.current # eta.model
                           THEN MODEL_LOAD_TIME(k) * den ELSE 0), den)

\* The image job was submitted with the default step count of its model (the
\* request names no steps, or names the default the estimator assumes), one
\* image, and its model is the one loaded.
EtaDefaultCase ==
    /\ eta.kind = "image"
    /\ eta.request_steps \in {NoSteps, EstimatorDefaultSteps("image", eta.model)}
    /\ eta.units = 1
    /\ eta.current = eta.model

\* C31: the ETA assigned at submission is base_time * (steps / default_steps)
\* * (unit_count / default_unit_count), plus the model-load time exactly when
\* another model is loaded; an image job submitted with the default step
\* count, one image and its model loaded gets the base time of its model.
C31_Eta ==
    eta.checked =>
        /\ SameSeconds(eta.eta_seconds, EtaRule)
        /\ EtaDefaultCase
              => SameSeconds(eta.eta_seconds,
                             Seconds(BaseTime("image", eta.model), 1))

\* C34: a requeued I2V job whose images are no longer in _pending_images
\* goes on to the generator when its saved source file exists, whether or
\* not create_job has run since the manager started, and is failed with
\* "Source image not found" only when no saved source file exists.
C34_ReloadsSourceImages ==
    [][(PendingProcess /\ Head(pending.job_queue) \notin pending.images)
          => LET id == Head(pending.job_queue)
             IN  /\ pending.jobs[id].saved
                    => pending'.jobs[id].status = GENERATING
                 /\ ~pending.jobs[id].saved
                    => /\ pending'.jobs[id].status = FAILED
                       /\ pending'.jobs[id].error = ErrSourceNotFound]_vars

\* C39: complete_job and fail_job called with an id that is not tracked
\* leave the jobs of the tracker as they are and raise nothing.
C39_UntrackedIsNoOp ==
    [][\A id \in TrackerIds :
          (~Tracked(id) /\ (TrackerCompleteJob(id) \/ TrackerFailJob(id)))
             => /\ tracker'.jobs = tracker.jobs
                /\ tracker'.raised = "None"]_vars

\* C37: at most one Civitai download job of a version_id is queued,
\* downloading or completed, through every sequence of start, cancel,
\* completion, failure and restart.
C37_OneActivePerVersion ==
    kind = "civitai" => Cardinality(Existing(jobs)) <= 1

\* A second download of the version started after the first was cancelled or
\* failed.
C37_Witness ==
    /\ kind = "civitai"
    /\ Len(jobs) = 2
    /\ jobs[1].status \in {CANCELLED, FAILED}
    /\ jobs[2].status \in {QUEUED, DOWNLOADING, COMPLETED}

====
